---- MODULE Spec2Model ----
(***************************************************************************)
(* Session and message-delivery layer of the voice+chat client:           *)
(*   TokenService   (src/src/services/tokenService.ts)                     *)
(*   LiveKitService (src/unnamed/part_001)                                 *)
(*   ChatService    (src/src/services/chatService.ts)                      *)
(*   AuthService    (src/vite.config.ts, lines 368-746)                    *)
(* The services are module-level singletons that run on one event loop:    *)
(* an action is one run-to-completion step of a handler, from its call or  *)
(* resumption up to the next await on an external result (credential       *)
(* fetch, transport connect/disconnect, data publish) or to its end.       *)
(* Timers fire at any time after they are armed.                           *)
(***************************************************************************)
EXTENDS Integers, Sequences, FiniteSets, TLC

(* ------------------------------- bounds -------------------------------- *)
MaxConnects == 2        \* connect() calls in flight at once
MaxMsgs == 2            \* messages sendMessage accepts in one run
MaxPasses == 2          \* processMessageQueue passes suspended at once
MaxAttemptsTracked == 4 \* attempts of one message followed by the model
MaxDeliveries == 2      \* times one inbound chat payload is delivered
MaxNow == 45000         \* last instant of the clock (ms)
TickMs == 45000         \* granularity of the clock (ms)
RemoteIdBase == 100     \* ids of the peer's messages are RemoteIdBase + k
MaxPublishing == 1      \* direct raw sends in flight at once
MaxRemote == 1          \* distinct ids of the peer's messages
MAX_HISTORY_SIZE == 2   \* CHAT_CONFIG.MAX_HISTORY_SIZE, scaled down
MaxEnds == 2            \* endSession() calls in flight at once
MaxTypingSends == 1     \* typing signals of one value in flight at once
MaxExecutions == 2      \* executions of one cleanup function followed
MaxWaiters == 1         \* cleanup() calls sharing a run in flight
MaxPriority == 2        \* priorities register() is called with: 1..MaxPriority
MaxReceipts == 5        \* delivery receipts transmitted by the two engines
TokenLifetime == 90000  \* expires_at - now of a fetched credential (ms)

(* -------------------------- program constants -------------------------- *)
TOKEN_REFRESH_BUFFER == 60000
APP_MAX_RETRY_ATTEMPTS == 3    \* APP_CONFIG.MAX_RETRY_ATTEMPTS
GLOBAL_HANDLERS_PRIORITY == 1000
\* CHAT_CONFIG.MAX_RETRY_ATTEMPTS: the constants module in src/ does not
\* define CHAT_CONFIG; the value is the default of section 4.3.
MAX_RETRY_ATTEMPTS == 3

NoSession == [exists |-> FALSE, connectionState |-> "disconnected"]
NoUser == "null"
UserId == "u1"
PeerId == "agent"

ConnectionStates ==
  {"disconnected", "connecting", "connected", "reconnecting", "failed"}

LocalIds == 1..MaxMsgs
RemoteIds == {RemoteIdBase + k : k \in 1..MaxRemote}
\* Ids (uuid) of the chat-shaped wrappers that carry control traffic.
EnvelopeIds == {RemoteIdBase + MaxRemote + 1}

VARIABLES
  chatBuilt,        \* chatService module evaluated (ChatService constructed)
  authBuilt,        \* authService module evaluated (AuthService constructed)
  eventHandlers,    \* LiveKitService.eventHandlers: owner of each slot
  room,             \* LiveKitService.room # null
  connectionState,  \* LiveKitService.connectionState
  roomState,        \* state of the transport's Room object
  connects,         \* LiveKitService.connect() calls in flight
  disconnecting,    \* a LiveKitService.disconnect() awaits room.disconnect()
  publishing,       \* publishData calls of direct raw sends, not yet settled
  currentToken,     \* TokenService.currentToken # null
  tokenExpiresAt,   \* TokenService.tokenExpiresAt (0 = null)
  refreshTimer,     \* TokenService.refreshTimer armed
  refreshing,       \* the refresh timer's requestToken awaits its fetch
  now,              \* Date.now()
  currentSession,   \* AuthService.currentSession
  currentUserId,    \* ChatService.currentUserId
  isConnected,      \* ChatService.isConnected
  messageQueue,     \* ChatService.messageQueue: ids in insertion order
  msgs,             \* the QueuedMessage objects, by message id
  nextId,           \* next fresh message id (uuid)
  passes,           \* processMessageQueue passes suspended in a send
  sendOrder,        \* ids in the order of their first hand-off to the raw send
  messageHistory,   \* ChatService.messageHistory (ids)
  retryTimers,      \* pending retry timers, by message id
  purgeTimers,      \* a failed-message cleanup timer is pending, by id
  deliveryTimers,   \* a delivery-confirmation timer is pending, by id
  cleanupTimers,    \* a delivered-message cleanup timer is pending, by id
  received,         \* onMessageReceived invocations, by inbound id
  endings,          \* AuthService.endSession() calls in flight
  sessionDisconnects, \* livekitService.disconnect() calls of endSession
                      \* since the last startSession
  sessionCleanups,  \* chatService.cleanup() runs since the last startSession
  isTyping,         \* ChatService.isTyping
  typingTimer,      \* ChatService.typingTimer pending
  typingInFlight,   \* typing signals handed to publishData, not yet settled
  lastTypingCall,   \* what the latest sendTypingIndicator call did
  fetchPc,          \* position of a requestToken() in fetchWithRetry
  fetchLog,         \* outcomes of the fetches of that request, in order
  cleanupFunctions, \* LifecycleManager.cleanupFunctions
  isCleaningUp,     \* LifecycleManager.isCleaningUp
  runIdx,           \* index the for-of loop of runCleanup is suspended at
  runLog,           \* entries the current runCleanup has executed, in order
  executed,         \* executions of the function registered under a name
  lastReg,          \* what the latest accepted register(name, ..) supplied
  listening,        \* the beforeunload / visibilitychange listeners are on
  waiters,          \* cleanup() calls that share the run in flight
  toLocal,          \* payloads in transit from the peer to this engine
  toPeer,           \* receipt wrappers in transit from this engine to the peer
  receipts          \* delivery receipts handed to the transport, both engines

lkVars == <<room, connectionState, roomState, connects, disconnecting,
            publishing>>
tokenVars == <<currentToken, tokenExpiresAt, refreshTimer, refreshing>>
authVars == <<currentSession>>
buildVars == <<chatBuilt, authBuilt, eventHandlers>>
passVars == <<msgs, passes, sendOrder, retryTimers, purgeTimers>>
timerVars == <<deliveryTimers, cleanupTimers>>
eventVars == <<received>>
chatVars == <<currentUserId, isConnected, messageQueue, nextId, messageHistory,
              passVars, timerVars, eventVars>>
endVars == <<endings, sessionDisconnects, sessionCleanups>>
typingVars == <<isTyping, typingTimer, typingInFlight, lastTypingCall>>
fetchVars == <<fetchPc, fetchLog>>
lifeVars == <<cleanupFunctions, isCleaningUp, runIdx, runLog, executed,
              lastReg, listening, waiters>>
wireVars == <<toLocal, toPeer, receipts>>
\* The state added by endSession, the typing indicator, fetchWithRetry, the
\* LifecycleManager and the data channel to the peer.
extVars == <<endVars, typingVars, fetchVars, lifeVars, wireVars>>
vars == <<buildVars, lkVars, tokenVars, now, authVars, chatVars, extVars>>

IdleConnect == [pc |-> "idle", via |-> "none"]
IdlePass == [pc |-> "idle", list |-> <<>>, i |-> 0]
NoMessage == [status |-> "none", attempts |-> 0, timestamp |-> 0]

(* ----------------------------- TokenService ---------------------------- *)

\* isTokenValid() with the comparison made inclusive.
IsTokenValidInclusive(tok, exp, t) ==
  tok /\ exp # 0 /\ t <= exp - TOKEN_REFRESH_BUFFER

\* isTokenValid(): a token with a known expiry that is more than the refresh
\* buffer away.
IsTokenValid(tok, exp, t) ==
  tok /\ exp # 0 /\ t < exp - TOKEN_REFRESH_BUFFER

\* What a credential response carries: expires_at present or absent (0).
ExpiryChoices == {0, now + TokenLifetime}

(* ------------------------------ ChatService ---------------------------- *)

RECURSIVE InsertSorted(_, _, _)
\* Array.prototype.sort is stable: x goes after every element whose timestamp
\* is not greater than its own.
InsertSorted(x, s, m) ==
  IF s = <<>> THEN <<x>>
  ELSE IF m[x].timestamp < m[Head(s)].timestamp THEN <<x>> \o s
  ELSE <<Head(s)>> \o InsertSorted(x, Tail(s), m)

RECURSIVE SortByTimestamp(_, _)
SortByTimestamp(s, m) ==
  IF s = <<>> THEN <<>>
  ELSE InsertSorted(s[Len(s)], SortByTimestamp(SubSeq(s, 1, Len(s) - 1), m), m)

\* The filter of processMessageQueue: entries that are pending or failed.
IsSendable(id, m) == m[id].status \in {"pending", "failed"}

PendingMessages(q, m) ==
  SortByTimestamp(SelectSeq(q, LAMBDA id : IsSendable(id, m)), m)

InSeq(x, s) == \E k \in 1..Len(s) : s[k] = x

FreePass ==
  IF \E p \in 1..MaxPasses : passes[p].pc = "idle"
  THEN CHOOSE p \in 1..MaxPasses :
         /\ passes[p].pc = "idle"
         /\ \A q \in 1..MaxPasses : passes[q].pc = "idle" => p <= q
  ELSE 1

\* The loop of processMessageQueue from message k of its snapshot, in pass
\* slot p of ps. sendQueuedMessage increments attempts and calls
\* livekitService.sendChatMessage. With a room the payload is handed to the
\* transport's publishData and the pass is suspended in the race against the
\* timeout. Without a room sendChatMessage throws, the catch block marks the
\* message failed and arms its retry or cleanup timer, and the loop goes on
\* in the same step, so every remaining message fails likewise.
\* failedHead: the message whose send just settled with an error, if any.
RunPass(p, ps, list, k, m, rt, failedHead, roomNow) ==
  LET rest == {list[j] : j \in k..Len(list)}
      cascade == IF roomNow THEN {} ELSE rest
      nextUp == IF roomNow /\ k <= Len(list) THEN {list[k]} ELSE {}
      att(x) == m[x].attempts + IF x \in cascade \cup nextUp THEN 1 ELSE 0
      failed == failedHead \cup cascade
      terminal == {x \in failed : att(x) >= MAX_RETRY_ATTEMPTS}
  IN
  /\ \A x \in cascade \cup nextUp : m[x].attempts < MaxAttemptsTracked
  /\ msgs' = [x \in DOMAIN m |->
               [status |-> IF x \in failed THEN "failed" ELSE m[x].status,
                attempts |-> att(x),
                timestamp |-> m[x].timestamp]]
  /\ passes' = IF nextUp # {}
                THEN [ps EXCEPT ![p] =
                        [pc |-> "awaitSend", list |-> list, i |-> k]]
                ELSE ps
  /\ sendOrder' = sendOrder \o
                    SelectSeq(SubSeq(list, k, Len(list)),
                              LAMBDA x : /\ x \in cascade \cup nextUp
                                         /\ ~InSeq(x, sendOrder))
  /\ retryTimers' = [x \in DOMAIN rt |->
                      rt[x] + IF x \in failed \ terminal THEN 1 ELSE 0]
  /\ purgeTimers' = [x \in DOMAIN purgeTimers |->
                      purgeTimers[x] \/ x \in terminal]

\* processMessageQueue(): nothing when not connected; otherwise the snapshot of
\* the sendable entries, oldest first, and the loop over it.
ProcessMessageQueue(conn, q, m, rt, roomNow) ==
  LET list == PendingMessages(q, m) IN
  IF ~conn \/ list = <<>>
  THEN /\ msgs' = m
       /\ retryTimers' = rt
       /\ UNCHANGED <<passes, sendOrder, purgeTimers>>
  ELSE /\ roomNow => \E p \in 1..MaxPasses : passes[p].pc = "idle"
       /\ RunPass(FreePass, passes, list, 1, m, rt, {}, roomNow)

(* ---------------------------- LiveKitService --------------------------- *)

\* updateConnectionState(state) as seen by AuthService's handler: the session
\* mirror follows when the handler is AuthService's and a session exists.
SessionAfter(sess, s) ==
  IF connectionState # s /\ eventHandlers.onConnectionStateChanged = "auth"
     /\ sess.exists
  THEN [sess EXCEPT !.connectionState = s]
  ELSE sess

\* updateConnectionState(state) as seen by ChatService's handler: isConnected
\* follows, and a change to connected starts a queue pass.
ChatAfter(s) ==
  IF connectionState # s /\ eventHandlers.onConnectionStateChanged = "chat"
  THEN /\ isConnected' = (s = "connected")
       /\ IF s = "connected" /\ ~isConnected
          THEN ProcessMessageQueue(TRUE, messageQueue, msgs, retryTimers, TRUE)
          ELSE UNCHANGED passVars
  ELSE UNCHANGED <<isConnected, passVars>>

\* The rest of ChatService, which updateConnectionState never touches.
ChatRest == <<currentUserId, messageQueue, nextId, messageHistory, timerVars,
              eventVars>>

\* requestToken() having received its response: the token is stored, and with
\* an expires_at the expiry is stored and the refresh timer re-armed.
TokenStored(exp) ==
  /\ currentToken' = TRUE
  /\ tokenExpiresAt' = IF exp # 0 THEN exp ELSE tokenExpiresAt
  /\ refreshTimer' = IF exp # 0 THEN TRUE ELSE refreshTimer

\* connect() from the room creation to the await of room.connect().
ConnectToRoom(c, via, sess) ==
  /\ room' = TRUE
  /\ connectionState' = "connecting"
  /\ roomState' = IF roomState = "disconnected" THEN "connecting" ELSE roomState
  /\ connects' = [connects EXCEPT ![c] = [pc |-> "awaitRoom", via |-> via]]
  /\ currentSession' = SessionAfter(sess, "connecting")
  /\ ChatAfter("connecting")

\* connect(): with a valid cached token straight on to the room, otherwise
\* suspended in the credential request.
ConnectCall(c, via, sess) ==
  /\ connects[c].pc = "idle"
  /\ \A d \in 1..MaxConnects : connects[d].pc = "idle" => c <= d
  /\ IF IsTokenValid(currentToken, tokenExpiresAt, now)
     THEN ConnectToRoom(c, via, sess)
     ELSE /\ connects' = [connects EXCEPT ![c] =
                           [pc |-> "awaitToken", via |-> via]]
          /\ currentSession' = sess
          /\ UNCHANGED <<room, connectionState, roomState, isConnected,
                         passVars>>

\* livekitService.connect(userId) called by presentation code.
LkConnect(c) ==
  /\ ConnectCall(c, "direct", currentSession)
  /\ UNCHANGED <<buildVars, disconnecting, publishing, tokenVars, now, ChatRest>>
  /\ UNCHANGED extVars

\* The catch block of connect(), and behind it the catch block of startSession
\* when the call came from there.
ConnectFails(c) ==
  /\ connectionState' = "failed"
  /\ connects' = [connects EXCEPT ![c] = IdleConnect]
  /\ currentSession' = IF connects[c].via = "session" THEN NoSession
                        ELSE SessionAfter(currentSession, "failed")
  /\ ChatAfter("failed")

\* The credential request of a connect() settles.
ConnectTokenSettles(c, ok, exp) ==
  /\ connects[c].pc = "awaitToken"
  /\ IF ok
     THEN /\ TokenStored(exp)
          /\ ConnectToRoom(c, connects[c].via, currentSession)
     ELSE /\ ConnectFails(c)
          /\ UNCHANGED <<room, roomState, currentToken, tokenExpiresAt,
                         refreshTimer>>
  /\ UNCHANGED <<buildVars, disconnecting, publishing, refreshing, now,
                 ChatRest>>
  /\ UNCHANGED extVars

\* startSession() after its await of connect(): updateSessionState copies
\* the connection manager's state into the session, if there is one.
SessionSynced(sess, via, s) ==
  IF via = "session" /\ sess.exists
  THEN [sess EXCEPT !.connectionState = s]
  ELSE sess

\* room.connect() settles. On success the Room emits Connected and connect()
\* sets connected; a room released meanwhile makes the continuation throw.
ConnectRoomSettles(c, ok) ==
  /\ connects[c].pc = "awaitRoom"
  /\ IF ok /\ room
     THEN /\ roomState \in {"connecting", "connected"}
          /\ roomState' = "connected"
          /\ connectionState' = "connected"
          /\ connects' = [connects EXCEPT ![c] = IdleConnect]
          /\ currentSession' =
               SessionSynced(SessionAfter(currentSession, "connected"),
                             connects[c].via, "connected")
          /\ ChatAfter("connected")
     ELSE /\ ok \/ roomState # "connected"
          /\ roomState' = IF roomState = "connecting" THEN "disconnected"
                          ELSE roomState
          /\ ConnectFails(c)
  /\ UNCHANGED <<buildVars, room, disconnecting, publishing, tokenVars, now,
                 ChatRest>>
  /\ UNCHANGED extVars

\* A transport event reaches its listener of setupRoomEventListeners, which
\* calls updateConnectionState(s).
RoomEvent(to, s) ==
  /\ room
  /\ roomState' = to
  /\ connectionState' = s
  /\ currentSession' = SessionAfter(currentSession, s)
  /\ ChatAfter(s)
  /\ UNCHANGED <<buildVars, room, connects, disconnecting, publishing,
                 tokenVars, now, ChatRest>>
  /\ UNCHANGED extVars

\* RoomEvent.Reconnecting: the transport lost the network.
RoomReconnecting ==
  /\ roomState = "connected"
  /\ RoomEvent("reconnecting", "reconnecting")

\* RoomEvent.Reconnected: the transport resumed.
RoomReconnected ==
  /\ roomState = "reconnecting"
  /\ RoomEvent("connected", "connected")

\* RoomEvent.Disconnected: the transport gave up or was closed by the server.
RoomDisconnected ==
  /\ roomState \in {"connected", "reconnecting"}
  /\ RoomEvent("disconnected", "disconnected")

\* clearToken()
ClearToken ==
  /\ currentToken' = FALSE
  /\ tokenExpiresAt' = 0
  /\ refreshTimer' = FALSE

\* disconnect() after room.disconnect(): room released, token cleared, state
\* set to disconnected.
DisconnectCompletes ==
  /\ room' = FALSE
  /\ roomState' = "disconnected"
  /\ ClearToken
  /\ connectionState' = "disconnected"
  /\ currentSession' = SessionAfter(currentSession, "disconnected")
  /\ ChatAfter("disconnected")

\* livekitService.disconnect() called: without a room it completes at once,
\* with a room it awaits room.disconnect().
LkDisconnect ==
  /\ ~disconnecting
  /\ IF room
     THEN /\ disconnecting' = TRUE
          /\ UNCHANGED <<room, roomState, connectionState, currentToken,
                         tokenExpiresAt, refreshTimer, currentSession,
                         isConnected, passVars>>
     ELSE /\ DisconnectCompletes
          /\ UNCHANGED disconnecting
  /\ UNCHANGED <<buildVars, connects, publishing, refreshing, now, ChatRest>>
  /\ UNCHANGED extVars

\* room.disconnect() settles: on an error the catch block rethrows and nothing
\* after the await runs.
DisconnectSettles(ok) ==
  /\ disconnecting
  /\ disconnecting' = FALSE
  /\ IF ok
     THEN DisconnectCompletes
     ELSE UNCHANGED <<room, roomState, connectionState, currentToken,
                     tokenExpiresAt, refreshTimer, currentSession,
                     isConnected, passVars>>
  /\ UNCHANGED <<buildVars, connects, publishing, refreshing, now, ChatRest>>
  /\ UNCHANGED extVars

\* sendChatMessage(message) called outside the queue (sendDeliveryReceipt,
\* sendTypingIndicator): without a room it throws; with a room it encodes the
\* message and awaits the transport's publishData.
SendChatMessage ==
  /\ room
  /\ publishing < MaxPublishing
  /\ publishing' = publishing + 1
  /\ UNCHANGED <<buildVars, room, connectionState, roomState, connects,
                 disconnecting, tokenVars, now, authVars, chatVars>>
  /\ UNCHANGED extVars

\* publishData settles; the callers only log the outcome.
PublishSettles ==
  /\ publishing > 0
  /\ publishing' = publishing - 1
  /\ UNCHANGED <<buildVars, room, connectionState, roomState, connects,
                 disconnecting, tokenVars, now, authVars, chatVars>>
  /\ UNCHANGED extVars

(* ----------------------- TokenService: refresh timer ------------------- *)

\* The refresh timer fires and calls requestToken.
RefreshFires ==
  /\ refreshTimer
  /\ ~refreshing
  /\ refreshTimer' = FALSE
  /\ refreshing' = TRUE
  /\ UNCHANGED <<buildVars, lkVars, currentToken, tokenExpiresAt, now,
                 authVars, chatVars>>
  /\ UNCHANGED extVars

\* The refresh's credential request settles; a failure is only logged.
RefreshSettles(ok, exp) ==
  /\ refreshing
  /\ refreshing' = FALSE
  /\ IF ok THEN TokenStored(exp)
     ELSE UNCHANGED <<currentToken, tokenExpiresAt, refreshTimer>>
  /\ UNCHANGED <<buildVars, lkVars, now, authVars, chatVars>>
  /\ UNCHANGED extVars

Tick ==
  /\ now + TickMs <= MaxNow
  /\ now' = now + TickMs
  /\ UNCHANGED <<buildVars, lkVars, tokenVars, authVars, chatVars>>
  /\ UNCHANGED extVars

(* ------------------------- module construction ------------------------- *)

\* ChatService's constructor: setupLiveKitIntegration registers its handlers.
BuildChat ==
  /\ ~chatBuilt
  /\ chatBuilt' = TRUE
  /\ eventHandlers' = [onConnectionStateChanged |-> "chat",
                       onDataReceived |-> "chat"]
  /\ UNCHANGED <<authBuilt, lkVars, tokenVars, now, authVars, chatVars>>
  /\ UNCHANGED extVars

\* AuthService's constructor: the authService module imports chatService, so
\* it runs after ChatService's; setEventHandlers merges its handlers over the
\* registered ones.
BuildAuth ==
  /\ chatBuilt
  /\ ~authBuilt
  /\ authBuilt' = TRUE
  /\ eventHandlers' = [onConnectionStateChanged |-> "auth",
                       onDataReceived |-> "auth"]
  /\ UNCHANGED <<chatBuilt, lkVars, tokenVars, now, authVars, chatVars>>
  /\ UNCHANGED extVars

(* ------------------------------ AuthService ---------------------------- *)

\* startSession(): the session object, chatService.initialize(userId), then
\* livekitService.connect.
StartSession(c) ==
  /\ authBuilt
  /\ currentUserId' = UserId
  /\ ConnectCall(c, "session",
                 [exists |-> TRUE, connectionState |-> "disconnected"])
  /\ UNCHANGED <<buildVars, disconnecting, publishing, tokenVars, now,
                 messageQueue, nextId, messageHistory, timerVars, eventVars>>
  /\ sessionDisconnects' = 0
  /\ sessionCleanups' = 0
  /\ UNCHANGED <<endings, typingVars, fetchVars, lifeVars,
    wireVars>>

(* ------------------------- ChatService: actions ------------------------ *)

\* addToHistory() without its limit.
AddToHistoryUnbounded(h, id) ==
  IF InSeq(id, h) THEN h ELSE Append(h, id)

\* addToHistory(): a message whose id is in the history is ignored; otherwise
\* it is appended and the history cut to its newest MAX_HISTORY_SIZE entries.
AddToHistory(h, id) ==
  IF InSeq(id, h) THEN h
  ELSE LET h1 == Append(h, id) IN
       IF Len(h1) > MAX_HISTORY_SIZE
       THEN SubSeq(h1, Len(h1) - MAX_HISTORY_SIZE + 1, Len(h1))
       ELSE h1

Remove(q, id) == SelectSeq(q, LAMBDA x : x # id)

\* sendMessage(text): a fresh id, the entry queued as pending with no
\* attempts, then processMessageQueue.
SendMessage ==
  /\ chatBuilt
  /\ nextId <= MaxMsgs
  /\ nextId' = nextId + 1
  /\ messageQueue' = Append(messageQueue, nextId)
  /\ ProcessMessageQueue(isConnected, Append(messageQueue, nextId),
        [msgs EXCEPT ![nextId] =
           [status |-> "pending", attempts |-> 0, timestamp |-> now]],
        retryTimers, room)
  /\ UNCHANGED <<buildVars, lkVars, tokenVars, now, authVars, currentUserId,
                 isConnected, messageHistory, timerVars, eventVars>>
  /\ UNCHANGED extVars

\* The race of sendQueuedMessage settles: the publish resolved (ok), or it
\* rejected or the timeout won (~ok). Then the loop takes the next message.
PassSettles(p, ok) ==
  LET pass == passes[p]
      id == pass.list[pass.i]
  IN
  /\ pass.pc = "awaitSend"
  /\ RunPass(p, [passes EXCEPT ![p] = IdlePass], pass.list, pass.i + 1,
             IF ok THEN [msgs EXCEPT ![id].status = "sent"] ELSE msgs,
             retryTimers, IF ok THEN {} ELSE {id}, room)
  /\ IF ok
     THEN /\ messageHistory' = AddToHistory(messageHistory, id)
          /\ deliveryTimers' = [deliveryTimers EXCEPT ![id] = TRUE]
     ELSE UNCHANGED <<messageHistory, deliveryTimers>>
  /\ UNCHANGED <<buildVars, lkVars, tokenVars, now, authVars, currentUserId,
                 isConnected, messageQueue, nextId, cleanupTimers, received>>
  /\ UNCHANGED extVars

\* A retry timer fires: processMessageQueue if the entry is still queued.
RetryFires(id) ==
  LET rt == [retryTimers EXCEPT ![id] = @ - 1] IN
  /\ retryTimers[id] > 0
  /\ IF InSeq(id, messageQueue)
     THEN ProcessMessageQueue(isConnected, messageQueue, msgs, rt, room)
     ELSE /\ retryTimers' = rt
          /\ UNCHANGED <<msgs, passes, sendOrder, purgeTimers>>
  /\ UNCHANGED <<buildVars, lkVars, tokenVars, now, authVars, currentUserId,
                 isConnected, messageQueue, nextId, messageHistory, timerVars,
                 eventVars>>
  /\ UNCHANGED extVars

\* The cleanup timer of a message that exhausted its attempts fires.
PurgeFires(id) ==
  /\ purgeTimers[id]
  /\ purgeTimers' = [purgeTimers EXCEPT ![id] = FALSE]
  /\ messageQueue' = Remove(messageQueue, id)
  /\ UNCHANGED <<buildVars, lkVars, tokenVars, now, authVars, currentUserId,
                 isConnected, nextId, messageHistory, msgs, passes, sendOrder,
                 retryTimers, timerVars, eventVars>>
  /\ UNCHANGED extVars

\* What scheduleDeliveryTimeout's timer and handleDeliveryReceipt both do: a
\* queued entry in status sent becomes delivered and its cleanup is scheduled.
MarkDelivered(id) ==
  IF InSeq(id, messageQueue) /\ msgs[id].status = "sent"
  THEN /\ msgs' = [msgs EXCEPT ![id].status = "delivered"]
       /\ cleanupTimers' = [cleanupTimers EXCEPT ![id] = TRUE]
  ELSE UNCHANGED <<msgs, cleanupTimers>>

\* The delivery-confirmation timer fires.
DeliveryFires(id) ==
  /\ deliveryTimers[id]
  /\ deliveryTimers' = [deliveryTimers EXCEPT ![id] = FALSE]
  /\ MarkDelivered(id)
  /\ UNCHANGED <<buildVars, lkVars, tokenVars, now, authVars, currentUserId,
                 isConnected, messageQueue, nextId, messageHistory, passes,
                 sendOrder, retryTimers, purgeTimers, eventVars>>
  /\ UNCHANGED extVars

\* The cleanup timer of a delivered message fires.
CleanupFires(id) ==
  /\ cleanupTimers[id]
  /\ cleanupTimers' = [cleanupTimers EXCEPT ![id] = FALSE]
  /\ messageQueue' = Remove(messageQueue, id)
  /\ UNCHANGED <<buildVars, lkVars, tokenVars, now, authVars, currentUserId,
                 isConnected, nextId, messageHistory, passVars, deliveryTimers,
                 eventVars>>
  /\ UNCHANGED extVars

\* Decoded inbound payloads: chat messages, well-formed or not, and delivery
\* receipts. An absent field is 0 or "".
Payloads ==
  [type : {"none"}, id : RemoteIds \cup {0}, senderId : {PeerId, UserId, ""},
   text : {"hi", ""}, ts : {1, 0}]
  \cup [type : {"delivery_receipt"}, id : LocalIds, senderId : {""},
        text : {""}, ts : {1}]

\* isValidChatMessage()
IsValidChatMessage(msg) ==
  msg.id # 0 /\ msg.senderId # "" /\ msg.text # "" /\ msg.ts > 0

\* handleIncomingData(): a payload with a type goes to handleSystemMessage; a
\* chat message that is not valid is dropped; a valid one is answered with a
\* delivery receipt unless it is our own, added to the history and surfaced.
HandleIncomingData(msg) ==
  IF msg.type = "delivery_receipt"
  THEN /\ MarkDelivered(msg.id)
       /\ UNCHANGED <<messageHistory, received>>
  ELSE IF ~IsValidChatMessage(msg)
  THEN UNCHANGED <<msgs, cleanupTimers, messageHistory, received>>
  ELSE /\ received[msg.id] < MaxDeliveries
       /\ messageHistory' = AddToHistory(messageHistory, msg.id)
       /\ received' = [received EXCEPT ![msg.id] = @ + 1]
       /\ UNCHANGED <<msgs, cleanupTimers>>

\* The Room emits DataReceived: the registered onDataReceived handler runs,
\* ChatService's handleIncomingData or AuthService's, which only logs.
DataReceived(msg) ==
  /\ room
  /\ roomState = "connected"
  /\ IF eventHandlers.onDataReceived = "chat"
     THEN HandleIncomingData(msg)
     ELSE UNCHANGED <<msgs, cleanupTimers, messageHistory, received>>
  /\ UNCHANGED <<buildVars, lkVars, tokenVars, now, authVars, currentUserId,
                 isConnected, messageQueue, nextId, passes, sendOrder,
                 retryTimers, purgeTimers, deliveryTimers>>
  /\ UNCHANGED extVars

(* ------------------------ AuthService: endSession ---------------------- *)

\* chatService.cleanup(): the typing timer is cancelled, the queue cleared and
\* the connection flag, the user id and the typing flag reset. The retryTimer
\* field is never assigned, so the retry, cleanup and delivery timers and the
\* passes in flight are left alone.
ChatCleanup ==
  /\ typingTimer' = FALSE
  /\ messageQueue' = <<>>
  /\ isConnected' = FALSE
  /\ currentUserId' = NoUser
  /\ isTyping' = FALSE

\* endSession() after its await of livekitService.disconnect(): the rest of
\* disconnect() (room released, token cleared, state disconnected), then
\* chatService.cleanup() and the session cleared.
EndCompletes ==
  /\ room' = FALSE
  /\ roomState' = "disconnected"
  /\ ClearToken
  /\ connectionState' = "disconnected"
  /\ ChatCleanup
  /\ currentSession' = NoSession
  /\ sessionCleanups' = sessionCleanups + 1

\* What endSession() may change besides its own bookkeeping, and what it
\* never touches.
EndTouched == <<room, roomState, connectionState, currentToken,
                tokenExpiresAt, refreshTimer, currentSession, isConnected,
                messageQueue, currentUserId, isTyping, typingTimer>>
EndRest == <<buildVars, connects, disconnecting, publishing, refreshing, now,
             nextId, messageHistory, passVars, timerVars, eventVars,
             typingInFlight, lastTypingCall, fetchVars, lifeVars,
               wireVars>>

\* endSession() called: without a session it returns at once; otherwise it
\* calls livekitService.disconnect(), which awaits room.disconnect() when a
\* room is held and completes at once when none is.
EndSession(e) ==
  /\ authBuilt
  /\ endings[e] = "idle"
  /\ \A d \in 1..MaxEnds : endings[d] = "idle" => e <= d
  /\ IF ~currentSession.exists
     THEN UNCHANGED <<EndTouched, endVars>>
     ELSE /\ sessionDisconnects' = sessionDisconnects + 1
          /\ IF room
             THEN /\ endings' = [endings EXCEPT ![e] = "awaitDisconnect"]
                  /\ UNCHANGED <<EndTouched, sessionCleanups>>
             ELSE /\ EndCompletes
                  /\ UNCHANGED endings
  /\ UNCHANGED EndRest

\* room.disconnect() of an endSession() settles. On an error disconnect()
\* rethrows and the catch block of endSession only clears the session.
EndSettles(e, ok) ==
  /\ endings[e] = "awaitDisconnect"
  /\ endings' = [endings EXCEPT ![e] = "idle"]
  /\ IF ok
     THEN EndCompletes
     ELSE /\ currentSession' = NoSession
          /\ UNCHANGED <<room, roomState, connectionState, currentToken,
                         tokenExpiresAt, refreshTimer, isConnected,
                         messageQueue, currentUserId, isTyping, typingTimer,
                         sessionCleanups>>
  /\ UNCHANGED <<sessionDisconnects, EndRest>>

(* ---------------------- ChatService: typing indicator ------------------ *)

\* sendTypingIndicator without its guard.
TypingNeverUnchanged(v) == FALSE

\* The guard of sendTypingIndicator: no change of the requested value.
TypingUnchanged(v) == isTyping = v

\* sendTypingIndicator(v) up to its await: nothing when the value does not
\* change; otherwise the flag is set and the signal goes to sendChatMessage,
\* which hands it to publishData when a room is held and throws otherwise.
TypingCall(v) ==
  IF TypingUnchanged(v)
  THEN /\ lastTypingCall' = "suppressed"
       /\ UNCHANGED <<isTyping, typingInFlight>>
  ELSE /\ isTyping' = v
       /\ IF room
          THEN /\ typingInFlight[v] < MaxTypingSends
               /\ typingInFlight' = [typingInFlight EXCEPT ![v] = @ + 1]
               /\ lastTypingCall' = "sent"
          ELSE /\ lastTypingCall' = "failed"
               /\ UNCHANGED typingInFlight

TypingRest == <<buildVars, lkVars, tokenVars, now, authVars, currentUserId,
                isConnected, messageQueue, nextId, messageHistory, passVars,
                timerVars, eventVars, endVars, fetchVars, lifeVars,
                  wireVars>>

\* sendTypingIndicator(v) called by presentation code.
SendTypingIndicator(v) ==
  /\ chatBuilt
  /\ TypingCall(v)
  /\ UNCHANGED <<typingTimer, TypingRest>>

\* The publish of a typing signal settles: after a sent "true" the auto-clear
\* timer is (re)armed; an error is only logged.
TypingSettles(v, ok) ==
  /\ typingInFlight[v] > 0
  /\ typingInFlight' = [typingInFlight EXCEPT ![v] = @ - 1]
  /\ typingTimer' = IF ok /\ v THEN TRUE ELSE typingTimer
  /\ UNCHANGED <<isTyping, lastTypingCall, TypingRest>>

\* The auto-clear timer fires: sendTypingIndicator(false).
TypingTimerFires ==
  /\ typingTimer
  /\ typingTimer' = FALSE
  /\ TypingCall(FALSE)
  /\ UNCHANGED TypingRest

(* ----------------------- TokenService: fetchWithRetry ------------------ *)

\* What one fetch can end with: a response (any status resolves the fetch),
\* or an exception: the abort of the timeout, an error whose message holds
\* "NetworkError", or any other error.
Responses == {"ok", "http401", "http403", "http429", "http500"}
Thrown == {"AbortError", "NetworkError", "TypeError"}

\* The errors after which fetchWithRetry goes on to the next attempt.
IsRetried(o) == o \in {"AbortError", "NetworkError"}

FetchRest == <<buildVars, lkVars, refreshing, now, authVars, chatVars,
               endVars, typingVars, lifeVars,
                 wireVars>>

\* requestToken(userId) called: the first fetch is issued.
RequestToken ==
  /\ fetchPc \in {"idle", "resolved", "rejected"}
  /\ fetchPc' = "awaitFetch"
  /\ fetchLog' = <<>>
  /\ UNCHANGED <<currentToken, tokenExpiresAt, refreshTimer, FetchRest>>

\* A fetch settles. A response ends fetchWithRetry whatever its status, and
\* requestToken stores the token of a 2xx response and throws on any other.
\* An exception ends it on the last attempt and on an error that is not
\* retried; otherwise the backoff timer is awaited.
FetchSettles(o, exp) ==
  /\ fetchPc = "awaitFetch"
  /\ fetchLog' = Append(fetchLog, o)
  /\ IF o = "ok"
     THEN /\ fetchPc' = "resolved"
          /\ TokenStored(exp)
     ELSE /\ fetchPc' = IF o \in Responses THEN "rejected"
                        ELSE IF Len(fetchLog) + 1 = APP_MAX_RETRY_ATTEMPTS
                        THEN "rejected"
                        ELSE IF IsRetried(o) THEN "backoff" ELSE "rejected"
          /\ UNCHANGED <<currentToken, tokenExpiresAt, refreshTimer>>
  /\ UNCHANGED FetchRest

\* The backoff delay is over: the next fetch is issued.
BackoffFires ==
  /\ fetchPc = "backoff"
  /\ fetchPc' = "awaitFetch"
  /\ UNCHANGED <<fetchLog, currentToken, tokenExpiresAt, refreshTimer,
                 FetchRest>>

(* ---------------------------- LifecycleManager ------------------------- *)

UserNames == {"a", "b"}
Priorities == 1..MaxPriority
\* A cleanup function returns a promise ("async") or does not ("sync").
Kinds == {"sync", "async"}

\* The entry the constructor registers: it removes the page listeners.
GlobalHandlers ==
  [name |-> "global-handlers", priority |-> GLOBAL_HANDLERS_PRIORITY,
   fn |-> "sync"]
Names == UserNames \cup {GlobalHandlers.name}
NoEntry == [name |-> "", priority |-> 0, fn |-> "none"]

\* unregister that removes nothing.
KeepEntries(reg, n) == reg

\* unregister's findIndex + splice: the first entry of that name is removed.
WithoutName(reg, n) ==
  IF \E k \in 1..Len(reg) : reg[k].name = n
  THEN LET k == CHOOSE i \in 1..Len(reg) :
                  /\ reg[i].name = n
                  /\ \A j \in 1..Len(reg) : reg[j].name = n => i <= j
       IN SubSeq(reg, 1, k - 1) \o SubSeq(reg, k + 1, Len(reg))
  ELSE reg

RECURSIVE InsertByPriority(_, _)
\* Array.prototype.sort is stable: x goes after every entry whose priority is
\* not greater than its own.
InsertByPriority(x, reg) ==
  IF reg = <<>> THEN <<x>>
  ELSE IF x.priority < Head(reg).priority THEN <<x>> \o reg
  ELSE <<Head(reg)>> \o InsertByPriority(x, Tail(reg))

RECURSIVE SortByPriority(_)
SortByPriority(reg) ==
  IF reg = <<>> THEN <<>>
  ELSE InsertByPriority(reg[Len(reg)],
                        SortByPriority(SubSeq(reg, 1, Len(reg) - 1)))

LifeRest == <<buildVars, lkVars, tokenVars, now, authVars, chatVars, endVars,
              typingVars, fetchVars, wireVars>>

\* register(name, cleanup, priority): refused during a cleanup; otherwise the
\* entry of that name is removed, the new one pushed and the list sorted.
Register(n, p, f) ==
  /\ IF isCleaningUp
     THEN UNCHANGED <<cleanupFunctions, executed, lastReg>>
     ELSE LET e == [name |-> n, priority |-> p, fn |-> f] IN
          /\ cleanupFunctions' =
               SortByPriority(Append(WithoutName(cleanupFunctions, n), e))
          /\ executed' = [executed EXCEPT ![n] = 0]
          /\ lastReg' = [lastReg EXCEPT ![n] = e]
  /\ UNCHANGED <<isCleaningUp, runIdx, runLog, listening, waiters, LifeRest>>

\* unregister(name), at any time: the array is spliced in place, under a
\* running for-of loop as well.
Unregister(n) ==
  /\ cleanupFunctions' = WithoutName(cleanupFunctions, n)
  /\ lastReg' = [lastReg EXCEPT ![n] = NoEntry]
  /\ UNCHANGED <<isCleaningUp, runIdx, runLog, executed, listening, waiters,
                 LifeRest>>

\* One call of a cleanup function: its execution is counted; the function of
\* global-handlers removes the page listeners.
Executed(ex, e) == [ex EXCEPT ![e.name] = @ + 1]
ListeningAfter(lis, e) == lis /\ e.name # GlobalHandlers.name

RECURSIVE RunResult(_, _, _, _, _)
\* The for-of loop of runCleanup from index k of the array: each function is
\* called; one that returns a promise suspends the loop at its index.
RunResult(k, reg, ex, log, lis) ==
  IF k > Len(reg)
  THEN [idx |-> 0, ex |-> ex, log |-> log, lis |-> lis, done |-> TRUE]
  ELSE IF reg[k].fn = "async"
  THEN [idx |-> k, ex |-> Executed(ex, reg[k]), log |-> Append(log, reg[k]),
        lis |-> ListeningAfter(lis, reg[k]), done |-> FALSE]
  ELSE RunResult(k + 1, reg, Executed(ex, reg[k]), Append(log, reg[k]),
                 ListeningAfter(lis, reg[k]))

\* The state after the loop went on from index k: at its end runCleanup
\* empties the registry and cleanup() resets its flag and promise.
RunCleanup(k, log) ==
  LET r == RunResult(k, cleanupFunctions, executed, log, listening) IN
  /\ \A n \in Names : r.ex[n] <= MaxExecutions
  /\ executed' = r.ex
  /\ runLog' = r.log
  /\ listening' = r.lis
  /\ runIdx' = r.idx
  /\ isCleaningUp' = ~r.done
  /\ cleanupFunctions' = IF r.done THEN <<>> ELSE cleanupFunctions
  /\ lastReg' = IF r.done THEN [n \in Names |-> NoEntry] ELSE lastReg
  /\ waiters' = IF r.done THEN 0 ELSE waiters

\* cleanup(): during a cleanup the promise of the run in flight is returned;
\* otherwise a run starts.
Cleanup ==
  IF isCleaningUp
  THEN /\ waiters < MaxWaiters
       /\ waiters' = waiters + 1
       /\ UNCHANGED <<cleanupFunctions, isCleaningUp, runIdx, runLog,
                      executed, lastReg, listening>>
  ELSE RunCleanup(1, <<>>)

\* lifecycleManager.cleanup() called by the application.
CleanupCall ==
  /\ Cleanup
  /\ UNCHANGED LifeRest

\* The promise of the function the loop is suspended at settles; a rejection
\* is logged and the loop goes on with the next index.
RunSettles(ok) ==
  /\ isCleaningUp
  /\ runIdx > 0
  /\ RunCleanup(runIdx + 1, runLog)
  /\ UNCHANGED LifeRest

\* visibilitychange to hidden: the listener calls cleanup().
PageHidden ==
  /\ listening
  /\ Cleanup
  /\ UNCHANGED LifeRest

RECURSIVE SyncResult(_, _, _, _)
\* The loop of runSyncCleanup: every function is called, a returned promise
\* is dropped.
SyncResult(k, reg, ex, lis) ==
  IF k > Len(reg) THEN [ex |-> ex, lis |-> lis]
  ELSE SyncResult(k + 1, reg, Executed(ex, reg[k]),
                  ListeningAfter(lis, reg[k]))

\* beforeunload: the listener calls runSyncCleanup(), which looks at neither
\* the flag nor the run in flight and leaves the registry as it is.
BeforeUnload ==
  LET r == SyncResult(1, cleanupFunctions, executed, listening) IN
  /\ listening
  /\ \A n \in Names : r.ex[n] <= MaxExecutions
  /\ executed' = r.ex
  /\ listening' = r.lis
  /\ UNCHANGED <<cleanupFunctions, isCleaningUp, runIdx, runLog, lastReg,
                 waiters, LifeRest>>

(* --------------------- control traffic between engines ----------------- *)

\* The control messages the engine builds: a delivery receipt for a message
\* id, a typing indicator with its flag.
ControlMessages ==
  [type : {"delivery_receipt"}, messageId : LocalIds]
  \cup [type : {"typing_indicator"}, isTyping : BOOLEAN]

\* What sendDeliveryReceipt and sendTypingIndicator put on the wire: the
\* control message serialised into the text of a chat-shaped wrapper with a
\* fresh id, the sender's id and a timestamp. The wrapper itself has no type
\* field. The text stands for the JSON string, which is never empty.
Envelope(ctl, id, sender) ==
  [type |-> "none", id |-> id, senderId |-> sender, text |-> ctl.type,
   ts |-> 1]

ControlEnvelopes ==
  {Envelope(ctl, id, PeerId) : ctl \in ControlMessages, id \in EnvelopeIds}

(* ------------------- receipt exchange between two engines -------------- *)

\* senderId of what this engine sends: this.currentUserId || 'unknown'.
SelfId == IF currentUserId = NoUser THEN "unknown" ELSE currentUserId

\* The first chat message of the peer's user.
PeerChat ==
  [type |-> "none", id |-> RemoteIdBase + 1, senderId |-> PeerId,
   text |-> "hi", ts |-> 1]

\* The wrapper sendDeliveryReceipt(messageId) of the engine of user `self`
\* puts on the wire.
ReceiptWrapper(self) ==
  Envelope([type |-> "delivery_receipt"], CHOOSE id \in EnvelopeIds : TRUE,
           self)

\* handleIncomingData of the engine whose currentUserId is `self` answers a
\* payload with sendDeliveryReceipt: the payload has no type, is a valid chat
\* message and was not sent by `self`.
AnswersWithReceipt(msg, self) ==
  msg.type = "none" /\ IsValidChatMessage(msg) /\ msg.senderId # self

WireRest == <<buildVars, lkVars, tokenVars, now, authVars, currentUserId,
              isConnected, messageQueue, nextId, passes, sendOrder,
              retryTimers, purgeTimers, deliveryTimers, endVars, typingVars,
              fetchVars, lifeVars>>

\* The peer's user sends one chat message.
PeerSendsChat ==
  /\ room
  /\ roomState = "connected"
  /\ toLocal = <<>>
  /\ toPeer = 0
  /\ receipts = 0
  /\ received[PeerChat.id] = 0
  /\ toLocal' = <<PeerChat>>
  /\ UNCHANGED <<toPeer, receipts, msgs, cleanupTimers, messageHistory,
                 received, WireRest>>

\* The Room emits DataReceived for the oldest payload in transit: the
\* registered handler runs; ChatService's answers with sendDeliveryReceipt,
\* which hands its wrapper to publishData while a room is held.
ChannelDelivers ==
  LET msg == Head(toLocal) IN
  /\ toLocal # <<>>
  /\ room
  /\ roomState = "connected"
  /\ toLocal' = Tail(toLocal)
  /\ IF eventHandlers.onDataReceived = "chat"
     THEN /\ HandleIncomingData(msg)
          /\ IF AnswersWithReceipt(msg, currentUserId)
             THEN /\ receipts < MaxReceipts
                  /\ receipts' = receipts + 1
                  /\ toPeer' = toPeer + 1
             ELSE UNCHANGED <<receipts, toPeer>>
     ELSE UNCHANGED <<msgs, cleanupTimers, messageHistory, received,
                      receipts, toPeer>>
  /\ UNCHANGED WireRest

\* The peer's engine receives a wrapper of this engine and handles it with
\* the same handleIncomingData.
PeerDelivers ==
  /\ toPeer > 0
  /\ toPeer' = toPeer - 1
  /\ IF AnswersWithReceipt(ReceiptWrapper(SelfId), PeerId)
     THEN /\ receipts < MaxReceipts
          /\ receipts' = receipts + 1
          /\ toLocal' = Append(toLocal, ReceiptWrapper(PeerId))
     ELSE UNCHANGED <<receipts, toLocal>>
  /\ UNCHANGED <<msgs, cleanupTimers, messageHistory, received, WireRest>>

(* ------------------------------- the clock ----------------------------- *)

\* Instants around the end of validity of a credential fetched at 0: one
\* second before, at, and one second after expiry minus the refresh buffer.
ClockPoints ==
  {TokenLifetime - TOKEN_REFRESH_BUFFER + d : d \in {0 - 1000, 0, 1000}}

Advance(t) ==
  /\ t > now
  /\ now' = t
  /\ UNCHANGED <<buildVars, lkVars, tokenVars, authVars, chatVars, extVars>>

(* ----------------------------- specification --------------------------- *)

Init ==
  /\ chatBuilt = FALSE
  /\ authBuilt = FALSE
  /\ eventHandlers = [onConnectionStateChanged |-> "none",
                      onDataReceived |-> "none"]
  /\ room = FALSE
  /\ connectionState = "disconnected"
  /\ roomState = "disconnected"
  /\ connects = [c \in 1..MaxConnects |-> IdleConnect]
  /\ disconnecting = FALSE
  /\ publishing = 0
  /\ currentToken = FALSE
  /\ tokenExpiresAt = 0
  /\ refreshTimer = FALSE
  /\ refreshing = FALSE
  /\ now = 0
  /\ currentSession = NoSession
  /\ currentUserId = NoUser
  /\ isConnected = FALSE
  /\ messageQueue = <<>>
  /\ msgs = [id \in LocalIds |-> NoMessage]
  /\ nextId = 1
  /\ passes = [p \in 1..MaxPasses |-> IdlePass]
  /\ sendOrder = <<>>
  /\ messageHistory = <<>>
  /\ retryTimers = [id \in LocalIds |-> 0]
  /\ purgeTimers = [id \in LocalIds |-> FALSE]
  /\ deliveryTimers = [id \in LocalIds |-> FALSE]
  /\ cleanupTimers = [id \in LocalIds |-> FALSE]
  /\ received = [id \in RemoteIds \cup EnvelopeIds |-> 0]
  /\ endings = [e \in 1..MaxEnds |-> "idle"]
  /\ sessionDisconnects = 0
  /\ sessionCleanups = 0
  /\ isTyping = FALSE
  /\ typingTimer = FALSE
  /\ typingInFlight = [v \in BOOLEAN |-> 0]
  /\ lastTypingCall = "none"
  /\ fetchPc = "idle"
  /\ fetchLog = <<>>
  /\ cleanupFunctions = <<GlobalHandlers>>
  /\ isCleaningUp = FALSE
  /\ runIdx = 0
  /\ runLog = <<>>
  /\ executed = [n \in Names |-> 0]
  /\ lastReg = [n \in Names |-> IF n = GlobalHandlers.name
                                 THEN GlobalHandlers ELSE NoEntry]
  /\ listening = TRUE
  /\ waiters = 0
  /\ toLocal = <<>>
  /\ toPeer = 0
  /\ receipts = 0

\* Connection manager, credential provider and session coordinator.
Next ==
  \/ BuildChat
  \/ BuildAuth
  \/ Tick
  \/ \E c \in 1..MaxConnects : LkConnect(c)
  \/ \E c \in 1..MaxConnects : StartSession(c)
  \/ \E c \in 1..MaxConnects, ok \in BOOLEAN, exp \in ExpiryChoices :
       ConnectTokenSettles(c, ok, exp)
  \/ \E c \in 1..MaxConnects, ok \in BOOLEAN : ConnectRoomSettles(c, ok)
  \/ RoomReconnecting
  \/ RoomReconnected
  \/ RoomDisconnected
  \/ LkDisconnect
  \/ \E ok \in BOOLEAN : DisconnectSettles(ok)
  \/ RefreshFires
  \/ \E ok \in BOOLEAN, exp \in ExpiryChoices : RefreshSettles(ok, exp)
  \/ SendChatMessage
  \/ PublishSettles

Spec == Init /\ [][Next]_vars

\* The application as shipped: the connection is opened by startSession only.
NextApp ==
  \/ BuildChat
  \/ BuildAuth
  \/ StartSession(1)
  \/ \E ok \in BOOLEAN, exp \in ExpiryChoices : ConnectTokenSettles(1, ok, exp)
  \/ \E ok \in BOOLEAN : ConnectRoomSettles(1, ok)
  \/ RoomReconnecting
  \/ RoomReconnected
  \/ RoomDisconnected
  \/ LkDisconnect
  \/ \E ok \in BOOLEAN : DisconnectSettles(ok)
  \/ Tick
  \/ SendMessage

SpecApp == Init /\ [][NextApp]_vars

\* The message engine with its own handlers registered at the connection
\* manager (the chatService module without the authService module): the
\* outbound queue.
NextChat ==
  \/ BuildChat
  \/ LkConnect(1)
  \/ \E ok \in BOOLEAN : ConnectTokenSettles(1, ok, 0)
  \/ \E ok \in BOOLEAN : ConnectRoomSettles(1, ok)
  \/ RoomReconnecting
  \/ RoomReconnected
  \/ RoomDisconnected
  \/ SendMessage
  \/ \E p \in 1..MaxPasses, ok \in BOOLEAN : PassSettles(p, ok)
  \/ \E id \in LocalIds : RetryFires(id)
  \/ \E id \in LocalIds : PurgeFires(id)

SpecChat == Init /\ [][NextChat]_vars

\* The same engine: the inbound path and the delivery confirmation.
NextInbound ==
  \/ BuildChat
  \/ LkConnect(1)
  \/ \E ok \in BOOLEAN : ConnectTokenSettles(1, ok, 0)
  \/ \E ok \in BOOLEAN : ConnectRoomSettles(1, ok)
  \/ RoomDisconnected
  \/ SendMessage
  \/ \E p \in 1..MaxPasses : PassSettles(p, TRUE)
  \/ \E id \in LocalIds : DeliveryFires(id)
  \/ \E id \in LocalIds : CleanupFires(id)
  \/ \E msg \in Payloads : DataReceived(msg)

SpecInbound == Init /\ [][NextInbound]_vars

(* -------------------------------- claims ------------------------------- *)

\* Nothing is in flight and no timer of the engine is armed: without a new
\* call or transport event no handler will ever run again.
Quiescent ==
  /\ \A c \in 1..MaxConnects : connects[c].pc = "idle"
  /\ ~disconnecting
  /\ \A p \in 1..MaxPasses : passes[p].pc = "idle"
  /\ \A id \in LocalIds :
       /\ retryTimers[id] = 0
       /\ ~purgeTimers[id]
       /\ ~deliveryTimers[id]
       /\ ~cleanupTimers[id]

\* C1. In a started session whose connection is connected, a message does
\* not stay pending: once every timer and callback has run (nothing is left
\* to schedule), no queued message is still in status pending.
C1_NoPendingLeftWhileConnected ==
  (currentSession.exists /\ connectionState = "connected" /\ Quiescent)
    => \A k \in 1..Len(messageQueue) :
         msgs[messageQueue[k]].status # "pending"

\* C2. At most one pass of the queue processor is suspended in a send at any
\* time: an invocation made while a pass is in flight starts no second pass.
C2_OnePassInFlight ==
  Cardinality({p \in 1..MaxPasses : passes[p].pc = "awaitSend"}) <= 1

Occurrences(id, h) == Cardinality({k \in 1..Len(h) : h[k] = id})

\* C3. An inbound chat message id that was delivered, however often, is
\* surfaced through onMessageReceived exactly once and is in the history at
\* most once.
C3_InboundDedup ==
  \A id \in RemoteIds :
    /\ received[id] <= 1
    /\ Occurrences(id, messageHistory) <= 1

\* A pass is suspended in the raw send of message id.
InFlight(id) ==
  \E p \in 1..MaxPasses :
    passes[p].pc = "awaitSend" /\ passes[p].list[passes[p].i] = id

\* C4. A message all of whose sends have settled and none succeeded has been
\* attempted at most MAX_RETRY_ATTEMPTS times: after the terminal failure no
\* further send of it is attempted.
C4_NoAttemptAfterTerminalFailure ==
  \A id \in LocalIds :
    (~InSeq(id, messageHistory) /\ ~InFlight(id))
      => msgs[id].attempts <= MAX_RETRY_ATTEMPTS

\* C5. On a transition to connected with messages A and B waiting in the
\* queue, a pass over the waiting messages in enqueue order begins: A is
\* handed to the raw send first.
C5_FlushOnConnect ==
  [][(/\ connectionState # "connected"
      /\ connectionState' = "connected"
      /\ Len(PendingMessages(messageQueue, msgs)) >= 2)
     => \E p \in 1..MaxPasses :
          /\ passes[p].pc = "idle"
          /\ passes'[p] = [pc |-> "awaitSend",
                           list |-> PendingMessages(messageQueue, msgs),
                           i |-> 1]]_vars

\* The transitions of section 4.2.
Edges ==
  {<<"disconnected", "connecting">>, <<"connecting", "connected">>,
   <<"connecting", "failed">>, <<"connected", "reconnecting">>,
   <<"reconnecting", "connected">>, <<"reconnecting", "disconnected">>,
   <<"connected", "disconnected">>}

\* C6. Every change of connectionState follows an edge of section 4.2 or is
\* the transition to disconnected of an explicit disconnect().
C6_OnlySpecifiedEdges ==
  [][connectionState' # connectionState
     => \/ <<connectionState, connectionState'>> \in Edges
        \/ /\ connectionState' = "disconnected"
           /\ LkDisconnect \/ \E ok \in BOOLEAN : DisconnectSettles(ok)]_vars

\* C7. connect() called while connecting or connected is a no-op: the
\* connection state stays as it is and no transport connect is started.
C7_ConnectIdempotent ==
  [][(/\ connectionState \in {"connecting", "connected"}
      /\ \E c \in 1..MaxConnects : LkConnect(c))
     => /\ connectionState' = connectionState
        /\ \A c \in 1..MaxConnects :
             connects'[c].pc = "awaitRoom" => connects[c].pc = "awaitRoom"]_vars

\* C8. A disconnect() that ends, at once or when the transport's disconnect
\* settles, leaves connectionState disconnected and no room held.
C8_DisconnectAlwaysDisconnects ==
  [][(\/ disconnecting /\ ~disconnecting'
      \/ ~room /\ LkDisconnect)
     => connectionState' = "disconnected" /\ ~room']_vars

\* C9. The raw send reaches the transport's publishData only while
\* connectionState is connected.
C9_RawSendOnlyWhenConnected ==
  [][publishing' > publishing => connectionState = "connected"]_vars

\* A connect() made by startSession goes to its catch block: startSession
\* rejects.
StartSessionRejects ==
  \E c \in 1..MaxConnects :
    /\ connects[c].via = "session"
    /\ connects'[c].pc = "idle"
    /\ connectionState' = "failed"

\* C10. When startSession rejects, nothing is left initialised: no session,
\* no cached credential, no refresh timer, no room, no user id in the engine.
C10_FailedStartLeavesNothing ==
  [][StartSessionRejects
     => /\ ~currentSession'.exists
        /\ ~currentToken'
        /\ ~refreshTimer'
        /\ ~room'
        /\ currentUserId' = NoUser]_vars

(* ---------------------- specifications, continued --------------------- *)

\* The application as wired, with endSession and the typing indicator.
NextSession ==
  \/ BuildChat
  \/ BuildAuth
  \/ StartSession(1)
  \/ \E ok \in BOOLEAN, exp \in ExpiryChoices : ConnectTokenSettles(1, ok, exp)
  \/ \E ok \in BOOLEAN : ConnectRoomSettles(1, ok)
  \/ SendMessage
  \/ \E v \in BOOLEAN : SendTypingIndicator(v)
  \/ \E v \in BOOLEAN, ok \in BOOLEAN : TypingSettles(v, ok)
  \/ TypingTimerFires
  \/ \E e \in 1..MaxEnds : EndSession(e)
  \/ \E e \in 1..MaxEnds, ok \in BOOLEAN : EndSettles(e, ok)

SpecSession == Init /\ [][NextSession]_vars

\* The typing indicator over a session that is started and ended.
NextTyping ==
  \/ BuildChat
  \/ BuildAuth
  \/ StartSession(1)
  \/ \E ok \in BOOLEAN : ConnectTokenSettles(1, ok, 0)
  \/ \E ok \in BOOLEAN : ConnectRoomSettles(1, ok)
  \/ \E v \in BOOLEAN : SendTypingIndicator(v)
  \/ \E v \in BOOLEAN, ok \in BOOLEAN : TypingSettles(v, ok)
  \/ TypingTimerFires
  \/ EndSession(1)
  \/ \E ok \in BOOLEAN : EndSettles(1, ok)

SpecTyping == Init /\ [][NextTyping]_vars

\* The credential cache under connect(), on a clock that passes the end of
\* validity.
NextToken ==
  \/ \E c \in 1..MaxConnects : LkConnect(c)
  \/ \E c \in 1..MaxConnects, ok \in BOOLEAN, exp \in ExpiryChoices :
       ConnectTokenSettles(c, ok, exp)
  \/ \E c \in 1..MaxConnects, ok \in BOOLEAN : ConnectRoomSettles(c, ok)
  \/ \E t \in ClockPoints : Advance(t)
  \/ RefreshFires
  \/ \E ok \in BOOLEAN, exp \in ExpiryChoices : RefreshSettles(ok, exp)
  \/ LkDisconnect
  \/ \E ok \in BOOLEAN : DisconnectSettles(ok)

SpecToken == Init /\ [][NextToken]_vars

\* One credential request after the other.
NextFetch ==
  \/ RequestToken
  \/ \E o \in Responses \cup Thrown, exp \in ExpiryChoices : FetchSettles(o, exp)
  \/ BackoffFires
  \/ \E t \in ClockPoints : Advance(t)

SpecFetch == Init /\ [][NextFetch]_vars

\* The LifecycleManager and the page events.
NextLifecycle ==
  \/ \E n \in UserNames, p \in Priorities, f \in Kinds : Register(n, p, f)
  \/ \E n \in UserNames : Unregister(n)
  \/ CleanupCall
  \/ \E ok \in BOOLEAN : RunSettles(ok)
  \/ PageHidden
  \/ BeforeUnload

SpecLifecycle == Init /\ [][NextLifecycle]_vars

\* The engine on its own handlers, facing a peer that runs the same engine.
NextControl ==
  \/ BuildChat
  \/ LkConnect(1)
  \/ \E ok \in BOOLEAN : ConnectTokenSettles(1, ok, 0)
  \/ \E ok \in BOOLEAN : ConnectRoomSettles(1, ok)
  \/ RoomDisconnected
  \/ \E msg \in Payloads \cup ControlEnvelopes : DataReceived(msg)

SpecControl == Init /\ [][NextControl]_vars

\* Well-formed chat messages of the peer.
PeerChatPayloads ==
  {msg \in Payloads :
     msg.type = "none" /\ IsValidChatMessage(msg) /\ msg.senderId = PeerId}

\* The engine on its own handlers: messages sent and received, the history.
\* The sends of the first pass resolve; a pass started while it is suspended
\* stays suspended.
NextHistory ==
  \/ BuildChat
  \/ LkConnect(1)
  \/ \E ok \in BOOLEAN : ConnectTokenSettles(1, ok, 0)
  \/ \E ok \in BOOLEAN : ConnectRoomSettles(1, ok)
  \/ SendMessage
  \/ PassSettles(1, TRUE)
  \/ \E msg \in PeerChatPayloads : DataReceived(msg)

SpecHistory == Init /\ [][NextHistory]_vars

\* Two engines exchanging delivery receipts over the data channel.
NextExchange ==
  \/ BuildChat
  \/ LkConnect(1)
  \/ \E ok \in BOOLEAN : ConnectTokenSettles(1, ok, 0)
  \/ \E ok \in BOOLEAN : ConnectRoomSettles(1, ok)
  \/ RoomDisconnected
  \/ PeerSendsChat
  \/ ChannelDelivers
  \/ PeerDelivers

SpecExchange == Init /\ [][NextExchange]_vars

(* --------------------------- claims, continued ------------------------- *)

\* C11. For one started session the transport disconnect is called at most
\* once by endSession and the chat engine's cleanup runs at most once,
\* however often endSession is called.
C11_EndSessionOncePerSession ==
  sessionDisconnects <= 1 /\ sessionCleanups <= 1

\* An endSession() that found a session returns or throws in this step.
EndSessionCompletes ==
  \E e \in 1..MaxEnds :
    \/ endings[e] = "awaitDisconnect" /\ endings'[e] = "idle"
    \/ currentSession.exists /\ ~room /\ EndSession(e)

\* C12. Whenever an endSession of an active session completes, the
\* connection state is disconnected, no token is cached, no refresh timer is
\* armed, the queue is empty and no typing timer is pending.
C12_EndSessionReleasesAll ==
  [][EndSessionCompletes
     => /\ connectionState' = "disconnected"
        /\ ~currentToken'
        /\ ~refreshTimer'
        /\ messageQueue' = <<>>
        /\ ~typingTimer']_vars

\* The ChatService handlers AuthService registers.
AuthChatHandlers == {"onMessageReceived", "onMessageSent", "onError"}

\* The handler through which sendQueuedMessage reports a message that has
\* used up its attempts.
TerminalFailureHandler == "onMessageFailed"

\* The report of a terminal failure has a subscriber in the session
\* coordinator, the only route from the engine to the session's onError.
TerminalFailureSurfaced == TerminalFailureHandler \in AuthChatHandlers

\* C13. A message that exhausted its attempts (its cleanup timer is armed)
\* has had its terminal failure surfaced through the session's onError.
C13_TerminalFailureSurfaced ==
  \A id \in LocalIds : purgeTimers[id] => TerminalFailureSurfaced

\* C14. A connect() asks for a credential: a request is issued exactly when
\* it is not the case that a token is cached with an expiry more than 60 s
\* ahead; otherwise the cached token is used and connect() goes on to the
\* room.
C14_CachedIffBeforeBuffer ==
  [][\A c \in 1..MaxConnects :
       LkConnect(c)
         => ((connects'[c].pc = "awaitToken")
               <=> ~(/\ currentToken
                     /\ tokenExpiresAt # 0
                     /\ now < tokenExpiresAt - 60000))]_vars

\* A request was issued for a cached token 59 s before the end of its
\* buffer-less validity.
C14_Witness ==
  /\ currentToken
  /\ tokenExpiresAt - now = 59000
  /\ \E c \in 1..MaxConnects : connects[c].pc = "awaitToken"

\* C15. In a credential request every fetch but the last failed with
\* something other than a 401/403, at most 5 fetches are made, and the
\* request gives up only on a 401/403 or after the 5th attempt.
C15_RetryUnlessFatal ==
  /\ \A k \in 1..(Len(fetchLog) - 1) :
       fetchLog[k] \notin {"ok", "http401", "http403"}
  /\ Len(fetchLog) <= 5
  /\ fetchPc = "rejected"
       => \/ fetchLog[Len(fetchLog)] \in {"http401", "http403"}
          \/ Len(fetchLog) = 5

\* C16. No registered cleanup function is executed a second time.
C16_ExecutedAtMostOnce ==
  \A n \in Names : executed[n] <= 1

\* A run of cleanup() ends in this step.
RunEnds ==
  /\ ~isCleaningUp'
  /\ \/ isCleaningUp /\ \E ok \in BOOLEAN : RunSettles(ok)
     \/ ~isCleaningUp /\ (CleanupCall \/ PageHidden)

Ascending(log) ==
  \A i, j \in 1..Len(log) : i < j => log[i].priority <= log[j].priority

\* C17. When a run of cleanup() ends, every function then registered has
\* been executed by the run, the executions were in ascending priority order,
\* the registry is empty and no cleanup is in progress.
C17_RunExecutesAllRegistered ==
  [][RunEnds
     => /\ \A k \in 1..Len(cleanupFunctions) :
             InSeq(cleanupFunctions[k], runLog')
        /\ Ascending(runLog')
        /\ cleanupFunctions' = <<>>
        /\ ~isCleaningUp']_vars

EntriesOf(n) ==
  {k \in 1..Len(cleanupFunctions) : cleanupFunctions[k].name = n}

\* C18. The registry holds, for every name, exactly the entry of the latest
\* register call accepted for it and not unregistered since, and none
\* otherwise; its entries are in ascending priority order.
C18_RegistryLatestAndSorted ==
  /\ \A n \in Names :
       IF lastReg[n] = NoEntry
       THEN EntriesOf(n) = {}
       ELSE /\ Cardinality(EntriesOf(n)) = 1
            /\ \A k \in EntriesOf(n) : cleanupFunctions[k] = lastReg[n]
  /\ Ascending(cleanupFunctions)

\* Two functions registered besides global-handlers, the one registered with
\* the lower priority number first.
C18_Witness ==
  /\ ~isCleaningUp
  /\ Len(cleanupFunctions) = 3
  /\ cleanupFunctions[1].name = "b"
  /\ cleanupFunctions[1].priority < cleanupFunctions[2].priority
  /\ cleanupFunctions[2].name = "a"

C20_ControlNeverSurfaced ==
  \A id \in EnvelopeIds :
    received[id] = 0 /\ ~InSeq(id, messageHistory)

\* A session is started after an endSession() of the previous one has
\* returned or thrown.
NextSessionStarts ==
  /\ sessionDisconnects > 0
  /\ \A e \in 1..MaxEnds : endings[e] = "idle"
  /\ ~currentSession.exists
  /\ StartSession(1)

\* C21. A session started after the previous one was ended finds nothing of
\* it: no cached credential and an empty history (the two that only a
\* session can fill).
C21_NothingCarriedOver ==
  [][NextSessionStarts
     => /\ ~currentToken
        /\ messageHistory = <<>>]_vars

\* The session was torn down (transport disconnected, token cleared, engine
\* cleaned up) and none was started since.
TornDown == sessionCleanups > 0 /\ ~currentSession.exists

\* A timer fires or an awaited result arrives.
Completion ==
  \/ \E ok \in BOOLEAN, exp \in ExpiryChoices : ConnectTokenSettles(1, ok, exp)
  \/ \E ok \in BOOLEAN : ConnectRoomSettles(1, ok)
  \/ \E v \in BOOLEAN, ok \in BOOLEAN : TypingSettles(v, ok)
  \/ TypingTimerFires

\* C22. After the teardown of a session a timer that fires or a result that
\* arrives changes neither the token cache, the queue, the history nor the
\* typing flag, and reports no connection state to the handlers.
C22_PostTeardownNoOp ==
  [][(TornDown /\ Completion)
     => /\ UNCHANGED <<currentToken, tokenExpiresAt, messageQueue,
                       messageHistory, isTyping>>
        /\ connectionState' = connectionState]_vars

\* C23. Whenever a session exists its connectionState equals the connection
\* manager's.
C23_SessionMirrorsManager ==
  currentSession.exists => currentSession.connectionState = connectionState

\* C30. With ChatService and then AuthService constructed, the engine's
\* connection flag is true exactly when the connection manager's state is
\* connected.
C30_FlagTracksManager ==
  (chatBuilt /\ authBuilt)
    => (isConnected <=> connectionState = "connected")

\* C24. A delivery attempt (attempts of a message incremented and the
\* message handed to the raw send) is made only in a step at whose end the
\* connection reports connected.
C24_AttemptsOnlyWhenConnected ==
  [][\A id \in LocalIds :
       msgs'[id].attempts > msgs[id].attempts
         => connectionState' = "connected"]_vars

\* C25. onMessageDelivered is invoked at most once for a message: a message
\* is not promoted to delivered while the cleanup of an earlier promotion of
\* it is still pending.
C25_DeliveredOnce ==
  [][\A id \in LocalIds :
       (msgs[id].status # "delivered" /\ msgs'[id].status = "delivered")
         => ~cleanupTimers[id]]_vars

\* C27. While the typing flag is true and no typing send is in flight the
\* auto-clear timer is pending, and while the flag is false no auto-clear
\* timer is pending.
C27_TypingTimerFollowsFlag ==
  /\ (isTyping /\ \A v \in BOOLEAN : typingInFlight[v] = 0) => typingTimer
  /\ ~isTyping => ~typingTimer

\* C28. The status of a message only moves forward: a sent message becomes
\* nothing but delivered, and a delivered message stays delivered.
C28_StatusMovesForward ==
  [][\A id \in LocalIds :
       /\ msgs[id].status = "sent"
            => msgs'[id].status \in {"sent", "delivered"}
       /\ msgs[id].status = "delivered"
            => msgs'[id].status = "delivered"]_vars

Distinct(h) == \A i, j \in 1..Len(h) : i # j => h[i] # h[j]

\* The newest n entries of h.
LastN(h, n) == IF Len(h) > n THEN SubSeq(h, Len(h) - n + 1, Len(h)) ELSE h

\* C26. The history never holds more than MAX_HISTORY_SIZE messages nor one
\* message twice, and it changes only by a message that is not in it being
\* appended and the oldest entries beyond the limit being dropped.
C26_HistoryBoundedNewest ==
  [][/\ Len(messageHistory') <= MAX_HISTORY_SIZE
     /\ Distinct(messageHistory')
     /\ messageHistory' # messageHistory
          => \E id \in LocalIds \cup RemoteIds :
               /\ ~InSeq(id, messageHistory)
               /\ messageHistory' =
                    LastN(Append(messageHistory, id), MAX_HISTORY_SIZE)]_vars

\* The history is full and a message that was sent or received has been
\* evicted from it.
C26_Witness ==
  /\ Len(messageHistory) = MAX_HISTORY_SIZE
  /\ \/ \E id \in LocalIds :
          /\ msgs[id].status \in {"sent", "delivered"}
          /\ ~InSeq(id, messageHistory)
     \/ \E id \in RemoteIds :
          received[id] > 0 /\ ~InSeq(id, messageHistory)

\* C29. One chat message is answered by one delivery receipt and a receipt
\* by none: the receipts transmitted never outnumber the chat messages
\* delivered.
C29_ReceiptsBounded ==
  receipts <= received[PeerChat.id]

====
